---------------------------- MODULE Spec2Model ----------------------------
(***************************************************************************)
(* Risk & regime scoring engine of the portfolio-analysis backend.         *)
(*                                                                         *)
(*   - zerodha.get_portfolio_summary  (the snapshot aggregator)            *)
(*   - sector_data.get_sector         (symbol -> sector lookup)            *)
(*   - risk_engine.calculate_risk_score / check_concentration_alerts       *)
(*   - market_engine.MarketDataCache, fetch_live_signals,                  *)
(*     get_macro_signals, determine_regime                                 *)
(*                                                                         *)
(* Conventions.  Money is in whole rupees (prices are drawn as integers,   *)
(* so round(x, 2) of a price * quantity is the identity).  A Python float  *)
(* percentage is kept as an exact rational [n, d] with d > 0; comparisons  *)
(* against the integer thresholds of the code are exact cross-products.    *)
(* A string the code takes apart (a trading symbol) is a sequence of       *)
(* one-character strings; other strings are TLA+ strings.  A Python dict   *)
(* is a function whose DOMAIN is the set of keys present; a dict whose     *)
(* insertion order is observable (sector_allocation) is a sequence of      *)
(* entries.                                                                *)
(***************************************************************************)
EXTENDS Integers, Sequences, FiniteSets, TLC

VARIABLES
    \* --- POST /ai-analysis (app.py) ------------------------------------
    kite_state,         \* "NO_TOKEN" | "ERROR" | "OK": what kite answers
    kite_holdings,      \* what kite.holdings() returns
    float_tie,          \* how the floats of this request fall at a rounding tie
    req_pc,             \* "start" | "done"
    portfolio_data,     \* get_portfolio_summary()
    risk_locals,        \* the locals of calculate_risk_score at its return
    risk_data,          \* calculate_risk_score(portfolio_data)
    alerts,             \* check_concentration_alerts(portfolio_data)
    raised,             \* the exception the scorers raised, "None" if none
    \* --- determine_regime on an arbitrary signals dict -------------------
    signals_arg,        \* the dict passed to determine_regime
    regime_pc,          \* "start" | "done"
    regime_ret,         \* the tuple determine_regime returned
    \* --- the macro-signal cache and its callers --------------------------
    now,                \* time.time(), in seconds
    cache_data,         \* market_cache.data
    cache_last_updated, \* market_cache.last_updated
    pc,                 \* caller -> position inside get_macro_signals
    local_signals,      \* caller -> the local `signals` of get_macro_signals
    elapsed,            \* caller -> time.time() - last_updated found by get()
    last_ret,           \* the latest completed call of get_macro_signals
    prev_ret,           \* the completed call before it
    \* --- get_market_context ----------------------------------------------
    context,            \* the dict get_market_context returned last
    \* --- get_sector on an arbitrary symbol -------------------------------
    symbol_arg,         \* the symbol passed to get_sector
    sector_pc,          \* "start" | "done"
    sector_ret          \* the sector get_sector returned

vars == << kite_state, kite_holdings, float_tie, req_pc, portfolio_data, risk_locals,
           risk_data, alerts, signals_arg, regime_pc, regime_ret, now,
           cache_data, cache_last_updated, pc, local_signals, elapsed, last_ret, prev_ret,
           raised, context, symbol_arg, sector_pc, sector_ret >>

req_vars == << kite_state, kite_holdings, float_tie, req_pc, portfolio_data,
               risk_locals, risk_data, alerts, raised >>

regime_vars == << signals_arg, regime_pc, regime_ret >>

cache_vars == << now, cache_data, cache_last_updated, pc, local_signals,
                 elapsed, last_ret, prev_ret >>

sector_vars == << symbol_arg, sector_pc, sector_ret >>

\* Python's None where a dict is expected, and where a string is expected
None == [ none |-> TRUE ]
NoneStr == "None"

----------------------------------------------------------------------------
(* Python helpers                                                          *)

\* dict.get(key, default)
Get(d, key, default) == IF key \in DOMAIN d THEN d[key] ELSE default

\* an exact rational standing for a float
Rat(n, d) == [n |-> n, d |-> d]

RatLeq(p, k) == p.n <= k * p.d
RatGt(p, k) == p.n > k * p.d
RatLess(p, q) == p.n * q.d < q.n * p.d

\* round() of the non-negative rational n / d to an integer.  Python rounds
\* the binary float, to nearest with ties to even.  When n / d is exactly
\* half-way between two integers the float holding it is either exact (ties
\* to even apply) or lies just beside the tie: `tie` names the outcome, "even",
\* "up" or "down".
RoundTie(n, d, tie) ==
    LET q == n \div d
        r == n % d
    IN  IF 2 * r < d THEN q
        ELSE IF 2 * r > d THEN q + 1
        ELSE IF tie = "up" THEN q + 1
        ELSE IF tie = "down" THEN q
        ELSE IF q % 2 = 0 THEN q ELSE q + 1

Ties == { "even", "up", "down" }

\* round(x, 2) and round(x, 1) of a percentage, as a rational
Round2(p, tie) == Rat(RoundTie(p.n * 100, p.d, tie), 100)
Round1(p, tie) == Rat(RoundTie(p.n * 10, p.d, tie), 10)
\* round(x): an int
Round0(p, tie) == RoundTie(p.n, p.d, tie)

Min(a, b) == IF a <= b THEN a ELSE b

RECURSIVE SumSeq(_)
SumSeq(s) == IF s = << >> THEN 0 ELSE Head(s) + SumSeq(Tail(s))

\* s[:k]
Take(s, k) == SubSeq(s, 1, Min(k, Len(s)))

----------------------------------------------------------------------------
(* sector_data.py                                                          *)

SECTOR_MAP ==
    (<<"T","C","S">> :> "IT Services")
    @@ (<<"I","N","F","Y">> :> "IT Services")
    @@ (<<"H","C","L","T","E","C","H">> :> "IT Services")
    @@ (<<"W","I","P","R","O">> :> "IT Services")
    @@ (<<"T","E","C","H","M">> :> "IT Services")
    @@ (<<"L","T","I","M">> :> "IT Services")
    @@ (<<"T","A","T","A","T","E","C","H">> :> "IT Services")
    @@ (<<"H","D","F","C","B","A","N","K">> :> "Banking")
    @@ (<<"I","C","I","C","I","B","A","N","K">> :> "Banking")
    @@ (<<"K","O","T","A","K","B","A","N","K">> :> "Banking")
    @@ (<<"A","X","I","S","B","A","N","K">> :> "Banking")
    @@ (<<"I","N","D","U","S","I","N","D","B","K">> :> "Banking")
    @@ (<<"C","U","B">> :> "Banking")
    @@ (<<"I","D","F","C","F","I","R","S","T","B">> :> "Banking")
    @@ (<<"S","B","I","N">> :> "Banking")
    @@ (<<"P","N","B">> :> "Banking")
    @@ (<<"B","A","N","K","B","A","R","O","D","A">> :> "Banking")
    @@ (<<"B","A","J","F","I","N","A","N","C","E">> :> "Finance")
    @@ (<<"B","A","J","A","J","F","I","N","S","V">> :> "Finance")
    @@ (<<"S","B","I","L","I","F","E">> :> "Insurance")
    @@ (<<"H","D","F","C","L","I","F","E">> :> "Insurance")
    @@ (<<"A","R","M","A","N","F","I","N">> :> "Finance")
    @@ (<<"S","B","I","C","A","R","D">> :> "Finance")
    @@ (<<"J","I","O","F","I","N">> :> "Finance")
    @@ (<<"I","R","E","D","A">> :> "Finance")
    @@ (<<"R","E","L","I","A","N","C","E">> :> "Energy")
    @@ (<<"O","N","G","C">> :> "Energy")
    @@ (<<"B","P","C","L">> :> "Energy")
    @@ (<<"I","O","C">> :> "Energy")
    @@ (<<"P","O","W","E","R","G","R","I","D">> :> "Power")
    @@ (<<"N","T","P","C">> :> "Power")
    @@ (<<"A","D","A","N","I","G","R","E","E","N">> :> "Power")
    @@ (<<"H","I","N","D","U","N","I","L","V","R">> :> "FMCG")
    @@ (<<"I","T","C">> :> "FMCG")
    @@ (<<"N","E","S","T","L","E","I","N","D">> :> "FMCG")
    @@ (<<"B","R","I","T","A","N","N","I","A">> :> "FMCG")
    @@ (<<"T","A","T","A","C","O","N","S","U","M">> :> "FMCG")
    @@ (<<"D","A","B","U","R">> :> "FMCG")
    @@ (<<"M","A","R","U","T","I">> :> "Automobile")
    @@ (<<"T","A","T","A","M","O","T","O","R","S">> :> "Automobile")
    @@ (<<"M","&","M">> :> "Automobile")
    @@ (<<"B","A","J","A","J","-","A","U","T","O">> :> "Automobile")
    @@ (<<"E","I","C","H","E","R","M","O","T">> :> "Automobile")
    @@ (<<"H","E","R","O","M","O","T","O","C","O">> :> "Automobile")
    @@ (<<"T","A","T","A","S","T","E","E","L">> :> "Metals")
    @@ (<<"H","I","N","D","A","L","C","O">> :> "Metals")
    @@ (<<"J","S","W","S","T","E","E","L">> :> "Metals")
    @@ (<<"C","O","A","L","I","N","D","I","A">> :> "Mining")
    @@ (<<"L","T">> :> "Construction")
    @@ (<<"U","L","T","R","A","C","E","M","C","O">> :> "Cement")
    @@ (<<"A","D","A","N","I","E","N","T">> :> "Diversified")
    @@ (<<"A","D","A","N","I","P","O","R","T","S">> :> "Infrastructure")
    @@ (<<"C","G","P","O","W","E","R">> :> "Engineering")
    @@ (<<"S","U","N","P","H","A","R","M","A">> :> "Pharma")
    @@ (<<"D","R","R","E","D","D","Y">> :> "Pharma")
    @@ (<<"C","I","P","L","A">> :> "Pharma")
    @@ (<<"D","I","V","I","S","L","A","B">> :> "Pharma")
    @@ (<<"B","H","A","R","T","I","A","R","T","L">> :> "Telecom")
    @@ (<<"T","A","T","A","C","O","M","M">> :> "Telecom")
    @@ (<<"T","I","T","A","N">> :> "Consumer Durables")
    @@ (<<"A","S","I","A","N","P","A","I","N","T">> :> "Paints")
    @@ (<<"I","N","D","I","G","O","P","N","T","S">> :> "Paints")
    @@ (<<"P","V","R","I","N","O","X">> :> "Media & Entertainment")
    @@ (<<"N","I","F","T","Y","B","E","E","S">> :> "ETF")
    @@ (<<"I","T","B","E","E","S">> :> "ETF")
    @@ (<<"M","I","D","1","5","0","B","E","E","S">> :> "ETF")
    @@ (<<"S","E","N","S","E","X","B","E","E","S">> :> "ETF")
    @@ (<<"L","I","Q","U","I","D","C","A","S","E">> :> "Liquid Fund")

\* SplitFirst without the split: the whole symbol
SplitFirst_Whole(symbol) == symbol

\* symbol.split('-')[0]: the characters before the first '-'
RECURSIVE SplitFirst(_)
SplitFirst(symbol) ==
    IF symbol = << >> \/ Head(symbol) = "-" THEN << >>
    ELSE << Head(symbol) >> \o SplitFirst(Tail(symbol))

get_sector(symbol) ==
    LET clean_symbol == SplitFirst(symbol)
    IN  Get(SECTOR_MAP, clean_symbol, "Other")

----------------------------------------------------------------------------
(* zerodha.py: get_portfolio_summary                                       *)

\* the snapshot of a session with no access token
DisconnectedSnapshot ==
    [ total_value |-> 0, sector_allocation |-> << >>, holdings_count |-> 0,
      holdings |-> << >>, data_source |-> "DISCONNECTED" ]

\* the snapshot returned when kite.holdings() raises
ErrorSnapshot ==
    [ total_value |-> 0, sector_allocation |-> << >>, holdings_count |-> 0,
      holdings |-> << >> ]

\* sector_weights[sector] = sector_weights.get(sector, 0.0) + current_val
AddWeight(w, sector, current_val) ==
    IF \E i \in DOMAIN w : w[i].sector = sector
    THEN [ i \in DOMAIN w |->
             IF w[i].sector = sector
             THEN [ w[i] EXCEPT !.weight = @ + current_val ]
             ELSE w[i] ]
    ELSE Append(w, [ sector |-> sector, weight |-> current_val ])

\* the loop over the holdings: the insertion-ordered sector_weights dict
RECURSIVE SectorWeights(_, _)
SectorWeights(hs, w) ==
    IF hs = << >> THEN w
    ELSE LET h == Head(hs)
         IN  SectorWeights(Tail(hs),
                 AddWeight(w, get_sector(h.tradingsymbol),
                           h.last_price * h.quantity))

ProcessedHolding(h) ==
    [ tradingsymbol |-> h.tradingsymbol,
      quantity |-> h.quantity,
      last_price |-> h.last_price,
      value |-> h.last_price * h.quantity,
      sector |-> get_sector(h.tradingsymbol) ]

\* round((v / total_value) * 100, 2) if total_value > 0 else 0
SectorPercent(v, total_value, tie) ==
    IF total_value > 0 THEN Round2(Rat(v * 100, total_value), tie)
    ELSE Rat(0, 1)

LiveSnapshot(holdings, tie) ==
    LET processed_holdings ==
            [ i \in DOMAIN holdings |-> ProcessedHolding(holdings[i]) ]
        total_value ==
            SumSeq([ i \in DOMAIN holdings |-> processed_holdings[i].value ])
        sector_weights == SectorWeights(holdings, << >>)
    IN  [ total_value |-> total_value,
          sector_allocation |->
              [ i \in DOMAIN sector_weights |->
                  [ sector |-> sector_weights[i].sector,
                    pct |-> SectorPercent(sector_weights[i].weight,
                                          total_value, tie) ] ],
          holdings_count |-> Len(holdings),
          holdings |-> processed_holdings,
          data_source |-> "LIVE" ]

get_portfolio_summary(state, holdings, tie) ==
    CASE state = "NO_TOKEN" -> DisconnectedSnapshot
      [] state = "ERROR" -> ErrorSnapshot
      [] OTHER -> LiveSnapshot(holdings, tie)

----------------------------------------------------------------------------
(* risk_engine.py: calculate_risk_score                                    *)

\* max(sector_alloc.values()) if sector_alloc else 0
RECURSIVE MaxPct(_, _)
MaxPct(alloc, best) ==
    IF alloc = << >> THEN best
    ELSE MaxPct(Tail(alloc),
                IF RatLess(best, Head(alloc).pct) THEN Head(alloc).pct
                ELSE best)

TopSectorPct(sector_alloc) ==
    IF sector_alloc # << >>
    THEN MaxPct(Tail(sector_alloc), Head(sector_alloc).pct)
    ELSE Rat(0, 1)

\* max(sector_alloc, key=sector_alloc.get): the first key holding the maximum
MaxSec(sector_alloc) ==
    LET top == TopSectorPct(sector_alloc)
        i == CHOOSE j \in DOMAIN sector_alloc :
                 /\ ~RatLess(sector_alloc[j].pct, top)
                 /\ \A k \in 1..(j - 1) : RatLess(sector_alloc[k].pct, top)
    IN  sector_alloc[i].sector

\* SectorRisk with the first boundary exclusive (`< 20`)
SectorRisk_Exclusive(top_sector_pct) ==
    IF top_sector_pct.n < 20 * top_sector_pct.d THEN 5
    ELSE IF RatLeq(top_sector_pct, 30) THEN 15
    ELSE 30

\* SectorRisk with the weight of the docstring (35) as its top penalty
SectorRisk_Heavier(top_sector_pct) ==
    IF RatLeq(top_sector_pct, 20) THEN 5
    ELSE IF RatLeq(top_sector_pct, 30) THEN 15
    ELSE 35

SectorRisk(top_sector_pct) ==
    IF RatLeq(top_sector_pct, 20) THEN 5
    ELSE IF RatLeq(top_sector_pct, 30) THEN 15
    ELSE 30

\* one step of the stable descending sort: h goes behind every element whose
\* value is not smaller
RECURSIVE InsertDesc(_, _)
InsertDesc(s, h) ==
    IF s = << >> THEN << h >>
    ELSE IF Head(s).value >= h.value
         THEN << Head(s) >> \o InsertDesc(Tail(s), h)
         ELSE << h >> \o s

RECURSIVE SortInto(_, _)
SortInto(hs, acc) ==
    IF hs = << >> THEN acc
    ELSE SortInto(Tail(hs), InsertDesc(acc, Head(hs)))

\* SortedHoldings without the sort: the holdings as received
SortedHoldings_Unsorted(holdings) == holdings

\* sorted(holdings, key=lambda x: x['value'], reverse=True)
SortedHoldings(holdings) == SortInto(holdings, << >>)

\* sum(h['value'] for h in sorted_holdings[:5])
Top5Val(holdings) ==
    LET sorted_holdings == SortedHoldings(holdings)
        top == Take(sorted_holdings, 5)
    IN  SumSeq([ i \in DOMAIN top |-> top[i].value ])

\* Top5Pct whose zero-total branch reports full concentration
Top5Pct_Full(top_5_val, total_value) ==
    IF total_value > 0 THEN Rat(top_5_val * 100, total_value) ELSE Rat(100, 1)

\* (top_5_val / total_value * 100) if total_value > 0 else 0
Top5Pct(top_5_val, total_value) ==
    IF total_value > 0 THEN Rat(top_5_val * 100, total_value) ELSE Rat(0, 1)

ConcentrationRisk(top_5_pct) ==
    IF RatLeq(top_5_pct, 35) THEN 8
    ELSE IF RatLeq(top_5_pct, 45) THEN 18
    ELSE 28

\* DiversificationRisk with the top boundary exclusive (`> 25`)
DiversificationRisk_Exclusive(holdings_count) ==
    IF holdings_count > 25 THEN 5
    ELSE IF holdings_count >= 15 THEN 12
    ELSE 18

\* DiversificationRisk with its middle tier starting at 10 holdings
DiversificationRisk_Ten(holdings_count) ==
    IF holdings_count >= 25 THEN 5
    ELSE IF holdings_count >= 10 THEN 12
    ELSE 18

DiversificationRisk(holdings_count) ==
    IF holdings_count >= 25 THEN 5
    ELSE IF holdings_count >= 15 THEN 12
    ELSE 18

\* DrawdownRisk with round() in place of int()
DrawdownRisk_Rounded(sector_risk, concentration_risk) ==
    Min(15, RoundTie(sector_risk + concentration_risk, 4, "even"))

\* min(15, int((sector_risk + concentration_risk) * 0.25)); the sum is a
\* non-negative int, so int() of its quarter is the floor
DrawdownRisk(sector_risk, concentration_risk) ==
    Min(15, (sector_risk + concentration_risk) \div 4)

\* RiskLabel with the first boundary exclusive (`< 30`)
RiskLabel_Exclusive(risk_score) ==
    IF risk_score < 30 THEN "Conservative"
    ELSE IF risk_score <= 60 THEN "Moderate"
    ELSE "Aggressive"

RiskLabel(risk_score) ==
    IF risk_score <= 30 THEN "Conservative"
    ELSE IF risk_score <= 60 THEN "Moderate"
    ELSE "Aggressive"

\* RiskReasons with the sector trigger inclusive (`>= 25`)
RiskReasons_Inclusive(sector_alloc, top_sector_pct, top_5_pct, holdings_count, tie) ==
    LET r1 == IF top_sector_pct.n >= 25 * top_sector_pct.d
              THEN << [ text |-> "{max_sec} sector exposure at {pct}%",
                        max_sec |-> MaxSec(sector_alloc),
                        pct |-> Round0(top_sector_pct, tie) ] >>
              ELSE << >>
        r2 == IF RatGt(top_5_pct, 40)
              THEN << [ text |-> "Top 5 stocks control {pct}% of portfolio",
                        pct |-> Round0(top_5_pct, tie) ] >>
              ELSE << >>
        r3 == IF holdings_count < 15
              THEN << [ text |-> "Low diversification ({count} holdings)",
                        count |-> holdings_count ] >>
              ELSE << >>
        reasons == r1 \o r2 \o r3
    IN  IF reasons = << >>
        THEN << [ text |-> "Balanced portfolio structure" ] >>
        ELSE reasons

\* the reasons list; an f-string is kept as its template and its arguments
RiskReasons(sector_alloc, top_sector_pct, top_5_pct, holdings_count, tie) ==
    LET r1 == IF RatGt(top_sector_pct, 25)
              THEN << [ text |-> "{max_sec} sector exposure at {pct}%",
                        max_sec |-> MaxSec(sector_alloc),
                        pct |-> Round0(top_sector_pct, tie) ] >>
              ELSE << >>
        r2 == IF RatGt(top_5_pct, 40)
              THEN << [ text |-> "Top 5 stocks control {pct}% of portfolio",
                        pct |-> Round0(top_5_pct, tie) ] >>
              ELSE << >>
        r3 == IF holdings_count < 15
              THEN << [ text |-> "Low diversification ({count} holdings)",
                        count |-> holdings_count ] >>
              ELSE << >>
        reasons == r1 \o r2 \o r3
    IN  IF reasons = << >>
        THEN << [ text |-> "Balanced portfolio structure" ] >>
        ELSE reasons

\* the locals of calculate_risk_score when it reaches its return statement
RiskLocals(portfolio, tie) ==
    LET sector_alloc == Get(portfolio, "sector_allocation", << >>)
        holdings == Get(portfolio, "holdings", << >>)
        holdings_count == Get(portfolio, "holdings_count", 0)
        total_value == Get(portfolio, "total_value", 1)
        top_sector_pct == TopSectorPct(sector_alloc)
        sector_risk == SectorRisk(top_sector_pct)
        top_5_val == Top5Val(holdings)
        top_5_pct == Top5Pct(top_5_val, total_value)
        concentration_risk == ConcentrationRisk(top_5_pct)
        diversification_risk == DiversificationRisk(holdings_count)
        drawdown_risk == DrawdownRisk(sector_risk, concentration_risk)
        risk_score == sector_risk + concentration_risk
                      + diversification_risk + drawdown_risk
    IN  [ top_sector_pct |-> top_sector_pct,
          sector_risk |-> sector_risk,
          top_5_val |-> top_5_val,
          top_5_pct |-> top_5_pct,
          concentration_risk |-> concentration_risk,
          holdings_count |-> holdings_count,
          diversification_risk |-> diversification_risk,
          drawdown_risk |-> drawdown_risk,
          risk_score |-> risk_score,
          label |-> RiskLabel(risk_score),
          reasons |-> RiskReasons(sector_alloc, top_sector_pct, top_5_pct,
                                  holdings_count, tie) ]

\* the dict calculate_risk_score returns, from its locals
RiskReturn(l, tie) ==
    [ risk_score |-> l.risk_score,
      risk_label |-> l.label,
      risk_reasons |-> l.reasons,
      metrics |-> [ top_sector_pct |-> Round2(l.top_sector_pct, tie),
                    top_5_stock_pct |-> Round2(l.top_5_pct, tie),
                    holdings_count |-> l.holdings_count ] ]

calculate_risk_score(portfolio, tie) ==
    RiskReturn(RiskLocals(portfolio, tie), tie)

----------------------------------------------------------------------------
(* risk_engine.py: check_concentration_alerts                              *)

\* ZeroTotal testing for a negative total (`< 0`)
ZeroTotal_Negative(total_val) == total_val < 0

\* if total_val == 0: return []
ZeroTotal(total_val) == total_val = 0

\* StockAlerts with the threshold inclusive (`>= 15`)
RECURSIVE StockAlerts_Inclusive(_, _, _)
StockAlerts_Inclusive(hs, total_val, tie) ==
    IF hs = << >> THEN << >>
    ELSE LET h == Head(hs)
             pct == Rat(h.value * 100, total_val)
             rest == StockAlerts_Inclusive(Tail(hs), total_val, tie)
         IN  IF pct.n >= 15 * pct.d
             THEN << [ type |-> "stock",
                       symbol |-> h.tradingsymbol,
                       value |-> Round1(pct, tie),
                       message |-> "{symbol} is {value}% of portfolio (>15%)" ]
                  >> \o rest
             ELSE rest

\* the stock pass: one alert per holding above 15% of total_val
RECURSIVE StockAlerts(_, _, _)
StockAlerts(hs, total_val, tie) ==
    IF hs = << >> THEN << >>
    ELSE LET h == Head(hs)
             pct == Rat(h.value * 100, total_val)
             rest == StockAlerts(Tail(hs), total_val, tie)
         IN  IF RatGt(pct, 15)
             THEN << [ type |-> "stock",
                       symbol |-> h.tradingsymbol,
                       value |-> Round1(pct, tie),
                       message |-> "{symbol} is {value}% of portfolio (>15%)" ]
                  >> \o rest
             ELSE rest

\* the sector pass: one alert per sector_allocation entry above 25%
RECURSIVE SectorAlerts(_, _)
SectorAlerts(alloc, tie) ==
    IF alloc = << >> THEN << >>
    ELSE LET e == Head(alloc)
             rest == SectorAlerts(Tail(alloc), tie)
         IN  IF RatGt(e.pct, 25)
             THEN << [ type |-> "sector",
                       symbol |-> e.sector,
                       value |-> Round1(e.pct, tie),
                       message |->
                           "{sector} sector is {value}% of portfolio (>25%)" ]
                  >> \o rest
             ELSE rest

\* check_concentration_alerts with the sector pass ahead of the stock pass
check_concentration_alerts_SectorsFirst(portfolio, tie) ==
    LET total_val == Get(portfolio, "total_value", 1)
    IN  IF total_val = 0 THEN << >>
        ELSE SectorAlerts(Get(portfolio, "sector_allocation", << >>), tie)
             \o StockAlerts(Get(portfolio, "holdings", << >>), total_val, tie)

\* the denominators of the divisions a call performs: pct = (h['value'] /
\* total_val) * 100 once per holding, unless the call has returned before
AlertDivisors(portfolio) ==
    LET total_val == Get(portfolio, "total_value", 1)
    IN  IF ZeroTotal(total_val) THEN { }
        ELSE IF Get(portfolio, "holdings", << >>) = << >> THEN { }
        ELSE { total_val }

\* the exception a call raises: a float division by zero is a
\* ZeroDivisionError
AlertsRaises(portfolio) ==
    IF 0 \in AlertDivisors(portfolio) THEN "ZeroDivisionError" ELSE NoneStr

check_concentration_alerts(portfolio, tie) ==
    LET total_val == Get(portfolio, "total_value", 1)
    IN  IF ZeroTotal(total_val) THEN << >>
        ELSE StockAlerts(Get(portfolio, "holdings", << >>), total_val, tie)
             \o SectorAlerts(Get(portfolio, "sector_allocation", << >>), tie)

----------------------------------------------------------------------------
(* market_engine.py: fetch_live_signals                                    *)
(* vix and index_drawdown are kept in hundredths (the code rounds both to  *)
(* two decimals); a random variate is a number of ten-thousandths.         *)

\* the try block: the forced `raise ValueError` is its first statement, so
\* the download below it never runs
TryLiveFetch == [ exception |-> "ValueError", signals |-> None ]

\* round(np.random.uniform(lo, hi), 2) for the variate u, in hundredths
UniformRounded(lo, hi, u) ==
    RoundTie(10000 * lo + (hi - lo) * u, 100, "even")

\* Simulation whose caution bucket keeps the drawdown range of the calm one
Simulation_CalmDrawdown(draw) ==
    LET stress_seed == draw.stress_seed
        bucket ==
            IF stress_seed < 6000
            THEN [ sim_vix |-> UniformRounded(11, 16, draw.u_vix),
                   drawdown |-> UniformRounded(0, 3, draw.u_drawdown),
                   yield_trend |-> "STABLE" ]
            ELSE IF stress_seed < 9000
            THEN [ sim_vix |-> UniformRounded(17, 22, draw.u_vix),
                   drawdown |-> UniformRounded(0, 3, draw.u_drawdown),
                   yield_trend |-> "UP" ]
            ELSE [ sim_vix |-> UniformRounded(23, 35, draw.u_vix),
                   drawdown |-> UniformRounded(8, 15, draw.u_drawdown),
                   yield_trend |-> "UP" ]
    IN  [ vix |-> bucket.sim_vix,
          index_drawdown |-> bucket.drawdown,
          interest_rates_trend |-> "STABLE",
          bond_yields_trend |-> bucket.yield_trend,
          oil_prices_trend |-> draw.oil,
          market_index |-> 24500,
          is_simulated |-> TRUE ]

\* the except branch: the simulated market conditions
Simulation(draw) ==
    LET stress_seed == draw.stress_seed
        bucket ==
            IF stress_seed < 6000
            THEN [ sim_vix |-> UniformRounded(11, 16, draw.u_vix),
                   drawdown |-> UniformRounded(0, 3, draw.u_drawdown),
                   yield_trend |-> "STABLE" ]
            ELSE IF stress_seed < 9000
            THEN [ sim_vix |-> UniformRounded(17, 22, draw.u_vix),
                   drawdown |-> UniformRounded(3, 8, draw.u_drawdown),
                   yield_trend |-> "UP" ]
            ELSE [ sim_vix |-> UniformRounded(23, 35, draw.u_vix),
                   drawdown |-> UniformRounded(8, 15, draw.u_drawdown),
                   yield_trend |-> "UP" ]
    IN  [ vix |-> bucket.sim_vix,
          index_drawdown |-> bucket.drawdown,
          interest_rates_trend |-> "STABLE",
          bond_yields_trend |-> bucket.yield_trend,
          oil_prices_trend |-> draw.oil,
          market_index |-> 24500,
          is_simulated |-> TRUE ]

\* fetch_live_signals whose handler lets the ValueError through
fetch_live_signals_Uncaught(draw) ==
    LET attempt == TryLiveFetch
    IN  IF attempt.exception = NoneStr
        THEN [ exception |-> NoneStr, value |-> attempt.signals ]
        ELSE [ exception |-> attempt.exception, value |-> None ]

\* what the call does: [exception, value]; `except Exception` catches the
\* ValueError of the try block and returns the simulation
fetch_live_signals(draw) ==
    LET attempt == TryLiveFetch
    IN  IF attempt.exception = NoneStr
        THEN [ exception |-> NoneStr, value |-> attempt.signals ]
        ELSE [ exception |-> NoneStr, value |-> Simulation(draw) ]

----------------------------------------------------------------------------
(* market_engine.py: determine_regime                                      *)

\* StressScore with the vix comparison inclusive (`>= 20`)
StressScore_Inclusive(signals) ==
    (IF Get(signals, "vix", 0) >= 2000 THEN 1 ELSE 0)
    + (IF Get(signals, "index_drawdown", 0) > 500 THEN 1 ELSE 0)
    + (IF Get(signals, "interest_rates_trend", NoneStr) = "UP" THEN 1 ELSE 0)
    + (IF Get(signals, "bond_yields_trend", NoneStr) = "UP" THEN 1 ELSE 0)

StressScore(signals) ==
    (IF Get(signals, "vix", 0) > 2000 THEN 1 ELSE 0)
    + (IF Get(signals, "index_drawdown", 0) > 500 THEN 1 ELSE 0)
    + (IF Get(signals, "interest_rates_trend", NoneStr) = "UP" THEN 1 ELSE 0)
    + (IF Get(signals, "bond_yields_trend", NoneStr) = "UP" THEN 1 ELSE 0)

\* determine_regime whose middle band reaches a score of 3 (`score <= 3`)
determine_regime_Wide(signals) ==
    LET score == StressScore(signals)
    IN  IF score = 0
        THEN << "NORMAL", << "Market indicators are stable." >> >>
        ELSE IF score <= 3
        THEN << "ELEVATED_VOLATILITY",
                << "Volatility or drawdown detected." >> >>
        ELSE << "STAGFLATION_RISK",
                << "High volatility and negative trend confluence." >> >>

determine_regime(signals) ==
    LET score == StressScore(signals)
    IN  IF score = 0
        THEN << "NORMAL", << "Market indicators are stable." >> >>
        ELSE IF score <= 2
        THEN << "ELEVATED_VOLATILITY",
                << "Volatility or drawdown detected." >> >>
        ELSE << "STAGFLATION_RISK",
                << "High volatility and negative trend confluence." >> >>

----------------------------------------------------------------------------
(* market_engine.py: MACRO_SECTOR_MAP and get_market_context (the second   *)
(* definition of the module, which replaces the first)                     *)

MACRO_SECTOR_MAP ==
    [ INTEREST_RATES_UP |->
          ("Banking" :> "Mixed (NIM impact vs Credit growth)")
          @@ ("Real Estate" :> "Negative (Higher mortgage rates)")
          @@ ("Infrastructure" :> "Negative (Higher cost of debt)")
          @@ ("FMCG" :> "Mildly Negative"),
      INFLATION_UP |->
          ("FMCG" :> "Negative (Margin pressure)")
          @@ ("Energy" :> "Positive")
          @@ ("Metals" :> "Positive")
          @@ ("IT" :> "Neutral"),
      OIL_UP |->
          ("Aviation" :> "Negative (Fuel costs)")
          @@ ("Paints" :> "Negative (Raw material costs)")
          @@ ("FMCG" :> "Negative (Transport costs)")
          @@ ("Energy" :> "Positive"),
      CURRENCY_WEAKNESS |->
          ("IT Services" :> "Positive (Export earnings)")
          @@ ("Pharma" :> "Positive (Export earnings)")
          @@ ("Automobile" :> "Negative (Imported components)") ]

\* {}
EmptyDict == [ k \in { } |-> NoneStr ]

\* d.update(e): the entries of e replace those of d
Update(d, e) == e @@ d

\* the dict get_market_context returns for the signals get_macro_signals
\* gave it
get_market_context(signals) ==
    LET r == determine_regime(signals)
        regime == r[1]
        reasons == r[2]
        general ==
            IF Get(signals, "vix", 0) > 2000
            THEN "General" :> "High Volatility affects all beta assets"
            ELSE EmptyDict
        rates ==
            IF \/ Get(signals, "interest_rates_trend", NoneStr) = "UP"
               \/ Get(signals, "bond_yields_trend", NoneStr) = "UP"
            THEN Update(general, MACRO_SECTOR_MAP.INTEREST_RATES_UP)
            ELSE general
        oil ==
            IF Get(signals, "oil_prices_trend", NoneStr) = "UP"
            THEN Update(rates, MACRO_SECTOR_MAP.OIL_UP)
            ELSE rates
        active_impacts ==
            IF DOMAIN oil = { } /\ regime = "NORMAL"
            THEN "General" :> "Macro environment is stable."
            ELSE oil
    IN  [ regime |-> regime,
          score |-> 0,
          reasons |-> reasons,
          signals |-> signals,
          impact_map |-> active_impacts ]

----------------------------------------------------------------------------
(* market_engine.py: MarketDataCache                                       *)

ttl_minutes == 15

\* MarketDataCache.__init__
ttl == ttl_minutes * 60

\* bool(self.data): None and the empty dict are falsy
Truthy(data) == data # None /\ DOMAIN data # {}

\* Fresh with the comparison inclusive (`<=`), and with it flipped (`>`)
Fresh_Inclusive(t, last_updated) == t - last_updated <= ttl
Fresh_Flipped(t, last_updated) == t - last_updated > ttl

\* time.time() - self.last_updated < self.ttl
Fresh(t, last_updated) == t - last_updated < ttl

----------------------------------------------------------------------------
(* Bounds and input sets                                                   *)

MaxHead == 2        \* leading holdings drawn freely
MaxFill == 25       \* trailing one-share holdings spread over five sectors
MaxTicks == 3       \* clock ticks a behaviour may take
TickStep == 300     \* seconds per clock tick
NumCallers == 2     \* threads calling get_macro_signals

TCS == << "T", "C", "S" >>
HDFCBANK == << "H", "D", "F", "C", "B", "A", "N", "K" >>
RELIANCE == << "R", "E", "L", "I", "A", "N", "C", "E" >>
RELIANCE_EQ == RELIANCE \o << "-", "E", "Q" >>
ITC == << "I", "T", "C" >>
SUNPHARMA == << "S", "U", "N", "P", "H", "A", "R", "M", "A" >>
BAJAJ_AUTO == << "B", "A", "J", "A", "J", "-", "A", "U", "T", "O" >>

HeadHoldings ==
    [ tradingsymbol : { RELIANCE_EQ, BAJAJ_AUTO },
      quantity : { 1, 3 },
      last_price : { 1 } ]

Heads == UNION { [ 1..k -> HeadHoldings ] : k \in 0..MaxHead }

FillSymbols == << TCS, HDFCBANK, RELIANCE, ITC, SUNPHARMA >>

\* n holdings of one share (or none) at price 1, cycling over FillSymbols
Fillers(n, q) ==
    [ i \in 1..n |->
        [ tradingsymbol |-> FillSymbols[((i - 1) % Len(FillSymbols)) + 1],
          quantity |-> q,
          last_price |-> 1 ] ]

\* the leading holdings come before or after the one-share holdings; and the
\* portfolios whose every holding has quantity 0
KiteHoldings ==
    { h \o Fillers(n, 1) : h \in Heads, n \in 0..MaxFill }
    \cup { Fillers(n, 1) \o h : h \in Heads, n \in 0..MaxFill }
    \cup { Fillers(n, 0) : n \in 0..MaxFill }

\* snapshots handed to the scorers directly: any of the four fields may be
\* absent, and the fields need not agree with each other
SnapshotKeys ==
    { "total_value", "holdings", "holdings_count", "sector_allocation" }

Valued(symbol, value) == ProcessedHolding(
    [ tradingsymbol |-> symbol, quantity |-> value, last_price |-> 1 ])

FullSnapshots ==
    [ total_value : { 0, 1, 8, 20 },
      holdings : { << >>,
                   << Valued(TCS, 0) >>,
                   << Valued(TCS, 3) >>,
                   << Valued(TCS, 3), Valued(ITC, 10) >> },
      holdings_count : { 0, 10, 15, 25 },
      sector_allocation :
          { << >>,
            << [ sector |-> "IT Services", pct |-> Rat(0, 100) ] >>,
            << [ sector |-> "IT Services", pct |-> Rat(2500, 100) ] >>,
            << [ sector |-> "IT Services", pct |-> Rat(4000, 100) ],
               [ sector |-> "FMCG", pct |-> Rat(6000, 100) ] >> } ]

Snapshots ==
    { [ k \in keys |-> s[k] ] : keys \in SUBSET SnapshotKeys,
                                s \in FullSnapshots }

\* the symbols handed to get_sector: every key of SECTOR_MAP, bare and with
\* an exchange suffix, and symbols that are not in the table
Symbols ==
    DOMAIN SECTOR_MAP
    \cup { k \o << "-", "E", "Q" >> : k \in DOMAIN SECTOR_MAP }
    \cup { << >>, << "-" >>, << "-", "T", "C", "S" >>,
           << "T", "C", "S", "-" >>, << "T", "C", "S", "-", "-", "E", "Q" >>,
           << "T", "C" >>, << "T", "C", "S", "X" >>, << "X", "Y", "Z" >>,
           << "X", "Y", "Z", "-", "T", "C", "S" >>, << "t", "c", "s" >> }

SignalKeys ==
    { "vix", "index_drawdown", "interest_rates_trend", "bond_yields_trend" }

Trends == { "UP", "DOWN", "STABLE" }

FullSignals ==
    [ vix : { 1500, 2000, 2001, 2100 },
      index_drawdown : { 0, 500, 501, 600 },
      interest_rates_trend : Trends,
      bond_yields_trend : Trends ]

\* signals dicts with any of the four keys missing
SignalDicts ==
    { [ k \in keys |-> s[k] ] : keys \in SUBSET SignalKeys, s \in FullSignals }

\* the random draws of the simulator used by the cache's callers: the calm
\* and the panic bucket
CacheDraws ==
    [ stress_seed : { 0, 9000 },
      u_vix : { 0 },
      u_drawdown : { 0 },
      oil : { "STABLE" } ]

\* the random draws of the simulator behind get_market_context: both ends
\* of every bucket and of every uniform variate
ContextDraws ==
    [ stress_seed : { 0, 5999, 6000, 8999, 9000, 9999 },
      u_vix : { 0, 9999 },
      u_drawdown : { 0, 9999 },
      oil : Trends ]

Callers == 1..NumCallers

MaxTime == ttl + MaxTicks * TickStep

----------------------------------------------------------------------------
(* Initial states                                                          *)

ReqIdle ==
    /\ kite_state = "NO_TOKEN"
    /\ kite_holdings = << >>
    /\ float_tie = "even"
    /\ req_pc = "done"
    /\ portfolio_data = None
    /\ risk_locals = None
    /\ risk_data = None
    /\ alerts = << >>
    /\ raised = NoneStr

SectorIdle ==
    /\ symbol_arg = << >>
    /\ sector_pc = "done"
    /\ sector_ret = NoneStr

RegimeIdle ==
    /\ signals_arg = None
    /\ regime_pc = "done"
    /\ regime_ret = << >>

\* market_cache = MarketDataCache(ttl_minutes=15); no call in progress.  The
\* wall clock starts at least one ttl after the epoch.
CacheInit ==
    /\ now = ttl
    /\ cache_data = None
    /\ cache_last_updated = 0
    /\ pc = [ c \in Callers |-> "idle" ]
    /\ local_signals = [ c \in Callers |-> None ]
    /\ elapsed = [ c \in Callers |-> -1 ]
    /\ last_ret = None
    /\ prev_ret = None
    /\ context = None

InitAnalysis ==
    /\ \/ kite_state \in { "NO_TOKEN", "ERROR" } /\ kite_holdings = << >>
       \/ kite_state = "OK" /\ kite_holdings \in KiteHoldings
    /\ float_tie = "even"
    /\ req_pc = "start"
    /\ portfolio_data = None
    /\ risk_locals = None
    /\ risk_data = None
    /\ alerts = << >>
    /\ raised = NoneStr
    /\ RegimeIdle
    /\ CacheInit
    /\ SectorIdle

InitRegime ==
    /\ signals_arg \in SignalDicts
    /\ regime_pc = "start"
    /\ regime_ret = << >>
    /\ ReqIdle
    /\ CacheInit
    /\ SectorIdle

\* the scorers are about to be called on a snapshot
InitDirect ==
    /\ kite_state = "NO_TOKEN"
    /\ kite_holdings = << >>
    /\ float_tie = "even"
    /\ req_pc = "start"
    /\ portfolio_data \in Snapshots
    /\ risk_locals = None
    /\ risk_data = None
    /\ alerts = << >>
    /\ raised = NoneStr
    /\ RegimeIdle
    /\ CacheInit
    /\ SectorIdle

\* get_sector is about to be called on a symbol
InitSector ==
    /\ symbol_arg \in Symbols
    /\ sector_pc = "start"
    /\ sector_ret = NoneStr
    /\ ReqIdle
    /\ RegimeIdle
    /\ CacheInit

InitCache == ReqIdle /\ RegimeIdle /\ CacheInit /\ SectorIdle

----------------------------------------------------------------------------
(* app.py: ai_analysis, up to the alerts                                   *)

ScorePortfolio ==
    /\ req_pc = "start"
    /\ float_tie' \in Ties
    /\ portfolio_data' =
           get_portfolio_summary(kite_state, kite_holdings, float_tie')
    /\ risk_locals' = RiskLocals(portfolio_data', float_tie')
    /\ risk_data' = RiskReturn(risk_locals', float_tie')
    /\ raised' = AlertsRaises(portfolio_data')
    /\ alerts' = IF raised' = NoneStr
                 THEN check_concentration_alerts(portfolio_data', float_tie')
                 ELSE << >>
    /\ req_pc' = "done"
    /\ UNCHANGED << kite_state, kite_holdings, regime_vars, cache_vars,
                    context, sector_vars >>

(* calculate_risk_score and check_concentration_alerts on a snapshot       *)

ScoreSnapshot ==
    /\ req_pc = "start"
    /\ portfolio_data # None
    /\ float_tie' \in Ties
    /\ risk_locals' = RiskLocals(portfolio_data, float_tie')
    /\ risk_data' = RiskReturn(risk_locals', float_tie')
    /\ raised' = AlertsRaises(portfolio_data)
    /\ alerts' = IF raised' = NoneStr
                 THEN check_concentration_alerts(portfolio_data, float_tie')
                 ELSE << >>
    /\ req_pc' = "done"
    /\ UNCHANGED << kite_state, kite_holdings, portfolio_data, regime_vars,
                    cache_vars, context, sector_vars >>

(* a call of determine_regime                                              *)

DetermineRegime ==
    /\ regime_pc = "start"
    /\ regime_ret' = determine_regime(signals_arg)
    /\ regime_pc' = "done"
    /\ UNCHANGED << signals_arg, req_vars, cache_vars, context, sector_vars >>

(* a call of get_sector                                                    *)

GetSector ==
    /\ sector_pc = "start"
    /\ sector_ret' = get_sector(symbol_arg)
    /\ sector_pc' = "done"
    /\ UNCHANGED << symbol_arg, req_vars, regime_vars, cache_vars, context >>

----------------------------------------------------------------------------
(* market_engine.py: get_macro_signals, one step per access to the shared  *)
(* cache                                                                   *)

Returned(c, val, from_cache, updated) ==
    [ val |-> val, from_cache |-> from_cache,
      elapsed |-> elapsed[c], updated |-> updated, ret_time |-> now ]

Return(c, val, from_cache, updated) ==
    /\ last_ret' = Returned(c, val, from_cache, updated)
    /\ prev_ret' = IF last_ret = None THEN None
                   ELSE [ val |-> last_ret.val, updated |-> last_ret.updated ]
    /\ pc' = [ pc EXCEPT ![c] = "idle" ]
    /\ local_signals' = [ local_signals EXCEPT ![c] = None ]
    /\ elapsed' = [ elapsed EXCEPT ![c] = -1 ]

\* get_macro_signals is entered; get() tests self.data
GetData(c) ==
    /\ pc[c] = "idle"
    /\ pc' = [ pc EXCEPT ![c] =
                 IF Truthy(cache_data) THEN "get_time" ELSE "fetch" ]
    /\ UNCHANGED << now, cache_data, cache_last_updated, local_signals,
                    elapsed, last_ret, prev_ret >>

\* get() reads the clock and self.last_updated; a caller that finds the
\* cache fresh keeps the age it computed
GetTime(c) ==
    /\ pc[c] = "get_time"
    /\ IF Fresh(now, cache_last_updated)
       THEN /\ pc' = [ pc EXCEPT ![c] = "get_ret" ]
            /\ elapsed' = [ elapsed EXCEPT ![c] = now - cache_last_updated ]
       ELSE /\ pc' = [ pc EXCEPT ![c] = "fetch" ]
            /\ UNCHANGED elapsed
    /\ UNCHANGED << now, cache_data, cache_last_updated, local_signals,
                    last_ret, prev_ret >>

\* get() returns self.data, and get_macro_signals returns it when truthy
GetRet(c) ==
    /\ pc[c] = "get_ret"
    /\ IF Truthy(cache_data)
       THEN Return(c, cache_data, TRUE, cache_last_updated)
       ELSE /\ pc' = [ pc EXCEPT ![c] = "fetch" ]
            /\ UNCHANGED << local_signals, elapsed,
                            last_ret, prev_ret >>
    /\ UNCHANGED << now, cache_data, cache_last_updated >>

\* signals = fetch_live_signals()
Fetch(c) ==
    /\ pc[c] = "fetch"
    /\ \E draw \in CacheDraws :
         LET r == fetch_live_signals(draw)
         IN  IF r.exception = NoneStr
             THEN /\ local_signals' = [ local_signals EXCEPT ![c] = r.value ]
                  /\ pc' = [ pc EXCEPT ![c] = "set_data" ]
             ELSE /\ pc' = [ pc EXCEPT ![c] = "raised" ]
                  /\ UNCHANGED local_signals
    /\ UNCHANGED << now, cache_data, cache_last_updated, elapsed, last_ret, prev_ret >>

\* market_cache.set(signals): self.data = data
SetData(c) ==
    /\ pc[c] = "set_data"
    /\ cache_data' = local_signals[c]
    /\ pc' = [ pc EXCEPT ![c] = "set_time" ]
    /\ UNCHANGED << now, cache_last_updated, local_signals, elapsed, last_ret, prev_ret >>

\* market_cache.set(signals): self.last_updated = time.time(); return signals
SetTime(c) ==
    /\ pc[c] = "set_time"
    /\ cache_last_updated' = now
    /\ Return(c, local_signals[c], FALSE, now)
    /\ UNCHANGED << now, cache_data >>

\* the wall clock advances
Tick ==
    /\ now < MaxTime
    /\ now' = now + TickStep
    /\ UNCHANGED << cache_data, cache_last_updated, pc, local_signals,
                    elapsed, last_ret, prev_ret >>

\* a call may start only when no other call is in progress
GetDataSeq(c) ==
    /\ \A d \in Callers : pc[d] = "idle"
    /\ GetData(c)

\* get_market_context, run to completion by one thread: get_macro_signals
\* (the cached value when there is a fresh one, else a regenerated value
\* that is stored), then the regime and the impact map
MarketContext ==
    /\ \A c \in Callers : pc[c] = "idle"
    /\ \E draw \in ContextDraws :
         LET hit == Truthy(cache_data) /\ Fresh(now, cache_last_updated)
             signals == IF hit THEN cache_data
                        ELSE fetch_live_signals(draw).value
             updated == IF hit THEN cache_last_updated ELSE now
         IN  /\ cache_data' = signals
             /\ cache_last_updated' = updated
             /\ last_ret' = [ val |-> signals, from_cache |-> hit,
                              elapsed |-> IF hit THEN now - cache_last_updated
                                          ELSE -1,
                              updated |-> updated, ret_time |-> now ]
             /\ prev_ret' = IF last_ret = None THEN None
                            ELSE [ val |-> last_ret.val,
                                   updated |-> last_ret.updated ]
             /\ context' = get_market_context(signals)
    /\ UNCHANGED << now, pc, local_signals, elapsed, req_vars, regime_vars,
                    sector_vars >>

----------------------------------------------------------------------------
(* Specifications                                                          *)

NextAnalysis == ScorePortfolio

NextRegime == DetermineRegime

NextSector == GetSector

NextDirect == ScoreSnapshot

Others == << req_vars, regime_vars, context, sector_vars >>

CallGetData == \E c \in Callers : GetData(c) /\ UNCHANGED Others
CallGetDataSeq == \E c \in Callers : GetDataSeq(c) /\ UNCHANGED Others
CallGetTime == \E c \in Callers : GetTime(c) /\ UNCHANGED Others
CallGetRet == \E c \in Callers : GetRet(c) /\ UNCHANGED Others
CallFetch == \E c \in Callers : Fetch(c) /\ UNCHANGED Others
CallSetData == \E c \in Callers : SetData(c) /\ UNCHANGED Others
CallSetTime == \E c \in Callers : SetTime(c) /\ UNCHANGED Others
ClockTick == Tick /\ UNCHANGED Others

NextCache ==
    \/ CallGetData
    \/ CallGetTime
    \/ CallGetRet
    \/ CallFetch
    \/ CallSetData
    \/ CallSetTime
    \/ ClockTick

NextContext ==
    \/ MarketContext
    \/ ClockTick

NextCacheSeq ==
    \/ CallGetDataSeq
    \/ CallGetTime
    \/ CallGetRet
    \/ CallFetch
    \/ CallSetData
    \/ CallSetTime
    \/ ClockTick

\* POST /ai-analysis on every portfolio of KiteHoldings
SpecAnalysis == InitAnalysis /\ [][NextAnalysis]_vars

\* the scorers on every snapshot of Snapshots
SpecDirect == InitDirect /\ [][NextDirect]_vars

\* get_sector on every symbol of Symbols
SpecSector == InitSector /\ [][NextSector]_vars

\* determine_regime on every dict of SignalDicts
SpecRegime == InitRegime /\ [][NextRegime]_vars

\* threads calling get_macro_signals concurrently
SpecCache == InitCache /\ [][NextCache]_vars

\* calls of get_market_context that do not overlap
SpecContext == InitCache /\ [][NextContext]_vars

\* calls of get_macro_signals that do not overlap
SpecCacheSeq == InitCache /\ [][NextCacheSeq]_vars

----------------------------------------------------------------------------
(* Properties                                                              *)

Reverse(s) == [ i \in DOMAIN s |-> s[Len(s) + 1 - i] ]

Without(s, i) == SubSeq(s, 1, i - 1) \o SubSeq(s, i + 1, Len(s))

\* the sum of the k largest numbers of the sequence s (of all when fewer)
RECURSIVE LargestSum(_, _)
LargestSum(s, k) ==
    IF k = 0 \/ s = << >> THEN 0
    ELSE LET i == CHOOSE j \in DOMAIN s : \A m \in DOMAIN s : s[m] <= s[j]
         IN  s[i] + LargestSum(Without(s, i), k - 1)

Scored == req_pc = "done"

EmptyPortfolio ==
    portfolio_data.total_value = 0 \/ portfolio_data.holdings = << >>

\* C1 as stated: every portfolio with total_value = 0 or with no holdings
\* gets sector_risk 5, concentration_risk 8, diversification_risk 18,
\* drawdown_risk 3, risk_score 34, the label Moderate and no alerts.
C1_AsStated ==
    (Scored /\ EmptyPortfolio) =>
        /\ risk_locals.sector_risk = 5
        /\ risk_locals.concentration_risk = 8
        /\ risk_locals.diversification_risk = 18
        /\ risk_locals.drawdown_risk = 3
        /\ risk_data.risk_score = 34
        /\ risk_data.risk_label = "Moderate"
        /\ alerts = << >>

\* C1 amended: every portfolio with total_value = 0 or with no holdings gets
\* sector_risk 5, concentration_risk 8, drawdown_risk 3 and no alerts; its
\* diversification_risk follows holdings_count, so that it scores 34
\* (Moderate) when holdings_count < 15, as every portfolio without holdings
\* does, 28 (Conservative) when 15 <= holdings_count < 25 and 21
\* (Conservative) when holdings_count >= 25.
C1_EmptyPortfolio ==
    (Scored /\ EmptyPortfolio) =>
        /\ risk_locals.sector_risk = 5
        /\ risk_locals.concentration_risk = 8
        /\ risk_locals.drawdown_risk = 3
        /\ alerts = << >>
        /\ portfolio_data.holdings = << >> => portfolio_data.holdings_count = 0
        /\ portfolio_data.holdings_count < 15 =>
               /\ risk_locals.diversification_risk = 18
               /\ risk_data.risk_score = 34
               /\ risk_data.risk_label = "Moderate"
        /\ (portfolio_data.holdings_count >= 15
            /\ portfolio_data.holdings_count < 25) =>
               /\ risk_locals.diversification_risk = 12
               /\ risk_data.risk_score = 28
               /\ risk_data.risk_label = "Conservative"
        /\ portfolio_data.holdings_count >= 25 =>
               /\ risk_locals.diversification_risk = 5
               /\ risk_data.risk_score = 21
               /\ risk_data.risk_label = "Conservative"

\* a scored portfolio of zero-quantity holdings, fewer than 15 of them
C1_Witness ==
    /\ Scored
    /\ kite_state = "OK"
    /\ portfolio_data.total_value = 0
    /\ portfolio_data.holdings # << >>
    /\ portfolio_data.holdings_count < 15
    /\ risk_data.risk_score = 34

\* the stress indicators of a signals dict that hold; a missing key holds not
StressIndicators(s) ==
    { k \in DOMAIN s :
        \/ k = "vix" /\ s[k] > 2000
        \/ k = "index_drawdown" /\ s[k] > 500
        \/ k = "interest_rates_trend" /\ s[k] = "UP"
        \/ k = "bond_yields_trend" /\ s[k] = "UP" }

ElevatedExample ==
    [ vix |-> 2100, index_drawdown |-> 0, interest_rates_trend |-> "STABLE",
      bond_yields_trend |-> "STABLE" ]

StagflationExample ==
    [ vix |-> 2100, index_drawdown |-> 600, interest_rates_trend |-> "UP",
      bond_yields_trend |-> "UP" ]

\* C2: determine_regime counts one point for each of vix > 20,
\* index_drawdown > 5.0, interest_rates_trend = UP and bond_yields_trend = UP
\* (strict, a missing value counting as no stress) and returns NORMAL for 0
\* points, ELEVATED_VOLATILITY for 1-2 and STAGFLATION_RISK for 3-4; the two
\* examples of the specification come out as stated.
C2_RegimeByScore ==
    regime_pc = "done" =>
        LET score == Cardinality(StressIndicators(signals_arg))
            regime == regime_ret[1]
        IN  /\ score = 0 => regime = "NORMAL"
            /\ score \in 1..2 => regime = "ELEVATED_VOLATILITY"
            /\ score \in 3..4 => regime = "STAGFLATION_RISK"
            /\ signals_arg = ElevatedExample =>
                   regime = "ELEVATED_VOLATILITY"
            /\ signals_arg = StagflationExample =>
                   regime = "STAGFLATION_RISK"

\* determine_regime has classified the second example
C2_Witness ==
    /\ regime_pc = "done"
    /\ signals_arg = StagflationExample
    /\ regime_ret[1] = "STAGFLATION_RISK"

\* the latest call was answered inside the TTL window of the cache fill the
\* call before it saw
SameWindow ==
    /\ last_ret # None
    /\ prev_ret # None
    /\ last_ret.ret_time - prev_ret.updated < ttl

\* C3: of two successive calls of get_macro_signals that do not overlap, the
\* second, when answered inside the TTL window of the fill the first one
\* saw, is served from the cache and returns the identical value.
C3_SameValueInWindow ==
    SameWindow => (last_ret.from_cache /\ last_ret.val = prev_ret.val)

\* a call answered from the cache after the clock has moved on
C3_Witness ==
    /\ SameWindow
    /\ last_ret.from_cache
    /\ last_ret.ret_time > prev_ret.updated
    /\ last_ret.val = prev_ret.val

\* C4: a call of get_macro_signals that answers from the cache found
\* time.time() - last_updated strictly below ttl (900 seconds); any other
\* call answers with what it regenerated, stamped with the current time.
C4_NeverStale ==
    last_ret # None =>
        IF last_ret.from_cache
        THEN /\ last_ret.elapsed >= 0
             /\ last_ret.elapsed < 15 * 60
        ELSE /\ last_ret.updated = last_ret.ret_time
             /\ last_ret.val.is_simulated

\* a call answered from the cache one tick before it expires
C4_Witness ==
    /\ last_ret # None
    /\ last_ret.from_cache
    /\ last_ret.elapsed = ttl - TickStep

\* C5 as stated: under every interleaving, calls answered inside one TTL
\* window return the same value, and that value is the one left in the cache.
C5_AsStated ==
    SameWindow =>
        /\ last_ret.val = prev_ret.val
        /\ (\A c \in Callers : pc[c] = "idle") => cache_data = last_ret.val

NeutralDefault(s) ==
    /\ s.vix = 1500
    /\ s.index_drawdown = 0
    /\ s.interest_rates_trend = "STABLE"
    /\ s.bond_yields_trend = "STABLE"
    /\ s.oil_prices_trend = "STABLE"

NeverRaises == \A c \in Callers : pc[c] # "raised"

\* C6 as stated: get_macro_signals never raises, and a call whose
\* regeneration failed returns the neutral default (vix 15, drawdown 0, all
\* three trends STABLE).  The live fetch of every regeneration fails.
C6_AsStated ==
    /\ NeverRaises
    /\ (last_ret # None /\ ~last_ret.from_cache) => NeutralDefault(last_ret.val)

\* C6 amended: get_macro_signals never raises; when the live fetch fails, as
\* it does in every regeneration, the call returns a value of the simulator
\* (is_simulated set, interest_rates_trend STABLE, vix within 11..35), not a
\* fixed default.
C6_SimulatedFallback ==
    /\ NeverRaises
    /\ (last_ret # None /\ ~last_ret.from_cache) =>
           /\ last_ret.val.is_simulated
           /\ last_ret.val.interest_rates_trend = "STABLE"
           /\ last_ret.val.vix >= 1100
           /\ last_ret.val.vix <= 3500

\* a regenerating call returned a simulated value that is not the default
C6_Witness ==
    /\ last_ret # None
    /\ ~last_ret.from_cache
    /\ last_ret.val.is_simulated
    /\ ~NeutralDefault(last_ret.val)

PctGrid == { 0, 1999, 2000, 2001, 2500, 2999, 3000, 3001, 10000 }

\* C7: top_sector_pct is the largest sector_allocation value (0 for an empty
\* mapping), and sector_risk is 5 up to 20, 15 above 20 up to 30, and 30
\* above 30; it never decreases as top_sector_pct grows and increases across
\* 20 and across 30.
C7_SectorRiskSteps ==
    Scored =>
        LET alloc == portfolio_data.sector_allocation
            t == risk_locals.top_sector_pct
            r == risk_locals.sector_risk
        IN  /\ alloc = << >> => t.n = 0
            /\ alloc # << >> =>
                   /\ \E i \in DOMAIN alloc : alloc[i].pct = t
                   /\ \A i \in DOMAIN alloc :
                          alloc[i].pct.n * t.d <= t.n * alloc[i].pct.d
            /\ t.n <= 20 * t.d => r = 5
            /\ (t.n > 20 * t.d /\ t.n <= 30 * t.d) => r = 15
            /\ t.n > 30 * t.d => r = 30
            /\ \A a, b \in PctGrid :
                   a <= b => SectorRisk(Rat(a, 100)) <= SectorRisk(Rat(b, 100))
            /\ SectorRisk(Rat(2000, 100)) < SectorRisk(Rat(2001, 100))
            /\ SectorRisk(Rat(3000, 100)) < SectorRisk(Rat(3001, 100))

\* a portfolio whose top sector holds exactly 30%
C7_Witness ==
    /\ Scored
    /\ risk_locals.top_sector_pct = Rat(3000, 100)
    /\ risk_locals.sector_risk = 15

\* C8: top_5_pct is 100 times the sum of the five largest holding values
\* over total_value, 0 when total_value is 0, whatever the order of the
\* holdings; concentration_risk is 8 up to 35, 18 above 35 up to 45, and 28
\* above 45.
C8_TopFive ==
    Scored =>
        LET hs == portfolio_data.holdings
            tv == portfolio_data.total_value
            five == LargestSum([ i \in DOMAIN hs |-> hs[i].value ], 5)
            p == risk_locals.top_5_pct
            r == risk_locals.concentration_risk
        IN  /\ risk_locals.top_5_val = five
            /\ tv = 0 => p.n = 0
            /\ tv > 0 => p.n * tv = 100 * five * p.d
            /\ Top5Val(Reverse(hs)) = risk_locals.top_5_val
            /\ p.n <= 35 * p.d => r = 8
            /\ (p.n > 35 * p.d /\ p.n <= 45 * p.d) => r = 18
            /\ p.n > 45 * p.d => r = 28

\* more than five holdings, the five largest holding exactly 35%
C8_Witness ==
    /\ Scored
    /\ Len(portfolio_data.holdings) > 5
    /\ risk_locals.top_5_pct.n = 35 * risk_locals.top_5_pct.d
    /\ risk_locals.concentration_risk = 8

\* C9: diversification_risk is 5 when holdings_count >= 25, 12 when
\* 15 <= holdings_count < 25 and 18 when holdings_count < 15, and it is the
\* same for a snapshot that differs in everything but holdings_count.
C9_Diversification ==
    Scored =>
        LET n == portfolio_data.holdings_count
            r == risk_locals.diversification_risk
            other == [ portfolio_data EXCEPT !.holdings = << >>,
                                             !.sector_allocation = << >>,
                                             !.total_value = 0 ]
        IN  /\ n >= 25 => r = 5
            /\ (n >= 15 /\ n < 25) => r = 12
            /\ n < 15 => r = 18
            /\ RiskLocals(other, float_tie).diversification_risk = r

\* a portfolio of exactly 25 holdings
C9_Witness ==
    /\ Scored
    /\ portfolio_data.holdings_count = 25
    /\ risk_locals.diversification_risk = 5

\* the example of the specification: top sector 40%, 10 holdings, the top
\* five holding 50%
ExamplePortfolio ==
    /\ risk_locals.top_sector_pct = Rat(4000, 100)
    /\ portfolio_data.holdings_count = 10
    /\ risk_locals.top_5_pct.n = 50 * risk_locals.top_5_pct.d

\* C10: drawdown_risk is min(15, floor(0.25 * (sector_risk +
\* concentration_risk))), risk_score is the sum of the four sub-scores, and
\* the example portfolio scores 30 + 28 + 18 + 14 = 90.
C10_DrawdownAndTotal ==
    Scored =>
        LET s == risk_locals.sector_risk + risk_locals.concentration_risk
            d == risk_locals.drawdown_risk
        IN  /\ d <= 15
            /\ 4 * d <= s
            /\ d < 15 => s < 4 * (d + 1)
            /\ risk_data.risk_score =
                   risk_locals.sector_risk + risk_locals.concentration_risk
                   + risk_locals.diversification_risk + d
            /\ ExamplePortfolio =>
                   /\ risk_locals.sector_risk = 30
                   /\ risk_locals.concentration_risk = 28
                   /\ risk_locals.diversification_risk = 18
                   /\ d = 14
                   /\ risk_data.risk_score = 90

\* the example portfolio has been scored
C10_Witness == Scored /\ ExamplePortfolio /\ risk_data.risk_score = 90


ScoreRange == 0..100

\* C11: risk_label is Conservative exactly when risk_score <= 30, Moderate
\* exactly when 31 <= risk_score <= 60 and Aggressive exactly when
\* risk_score >= 61; the labelling step maps 30 to Conservative and 60 to
\* Moderate.
C11_LabelByScore ==
    /\ Scored =>
           LET s == risk_data.risk_score
               l == risk_data.risk_label
           IN  /\ l = "Conservative" <=> s <= 30
               /\ l = "Moderate" <=> (31 <= s /\ s <= 60)
               /\ l = "Aggressive" <=> s >= 61
    /\ \A s \in ScoreRange :
           /\ RiskLabel(s) = "Conservative" <=> s <= 30
           /\ RiskLabel(s) = "Moderate" <=> (31 <= s /\ s <= 60)
           /\ RiskLabel(s) = "Aggressive" <=> s >= 61

\* a portfolio scoring 59, the highest Moderate score the sub-scores can add
\* up to
C11_Witness ==
    /\ Scored
    /\ risk_data.risk_score = 59
    /\ risk_data.risk_label = "Moderate"


\* the kind of a reason, in the order the reasons are emitted: dominant
\* sector, top five, low diversification, fallback
ReasonKind(r) ==
    IF r.text = "{max_sec} sector exposure at {pct}%" THEN 1
    ELSE IF r.text = "Top 5 stocks control {pct}% of portfolio" THEN 2
    ELSE IF r.text = "Low diversification ({count} holdings)" THEN 3
    ELSE 4

\* the integer k is the rational p rounded to a nearest integer
Nearest(k, p) ==
    /\ 2 * (k * p.d - p.n) <= p.d
    /\ 2 * (p.n - k * p.d) <= p.d

\* C12: risk_reasons is never empty; it holds the dominant-sector reason
\* (naming a sector whose allocation is the maximum, with that percentage
\* rounded) iff top_sector_pct > 25, the top-5 reason iff top_5_pct > 40 and
\* the low-diversification reason iff holdings_count < 15, in that order
\* and each at most once; it is the single reason "Balanced portfolio
\* structure" iff none of the three triggers holds.
C12_ReasonsOrdered ==
    Scored =>
        LET R == risk_data.risk_reasons
            alloc == portfolio_data.sector_allocation
            t == risk_locals.top_sector_pct
            f == risk_locals.top_5_pct
            n == portfolio_data.holdings_count
            Has(kind) == \E i \in DOMAIN R : ReasonKind(R[i]) = kind
        IN  /\ Len(R) >= 1
            /\ Has(1) <=> t.n > 25 * t.d
            /\ Has(2) <=> f.n > 40 * f.d
            /\ Has(3) <=> n < 15
            /\ \A i, j \in DOMAIN R :
                   i < j => ReasonKind(R[i]) < ReasonKind(R[j])
            /\ \A i \in DOMAIN R :
                   /\ ReasonKind(R[i]) = 1 =>
                          /\ \E k \in DOMAIN alloc :
                                 /\ alloc[k].sector = R[i].max_sec
                                 /\ alloc[k].pct = t
                          /\ Nearest(R[i].pct, t)
                   /\ ReasonKind(R[i]) = 2 => Nearest(R[i].pct, f)
                   /\ ReasonKind(R[i]) = 3 => R[i].count = n
            /\ R = << [ text |-> "Balanced portfolio structure" ] >>
                   <=> ~(t.n > 25 * t.d \/ f.n > 40 * f.d \/ n < 15)

\* all three reasons are reported
C12_Witness ==
    /\ Scored
    /\ Len(risk_data.risk_reasons) = 3
    /\ ReasonKind(risk_data.risk_reasons[1]) = 1
    /\ ReasonKind(risk_data.risk_reasons[3]) = 3


AlertsOfType(a, type) == SelectSeq(a, LAMBDA x : x.type = type)

\* the holdings above 15% of the total value tv, in input order
AboveFifteen(hs, tv) == SelectSeq(hs, LAMBDA h : h.value * 100 > 15 * tv)

\* C13: when total_value > 0 the stock alerts are, one for one and in input
\* order, the holdings with value / total_value * 100 > 15; a holding at
\* exactly 15% has no alert, one above 15% has exactly one.
C13_StockAlerts ==
    (Scored /\ portfolio_data.total_value > 0) =>
        LET hs == portfolio_data.holdings
            tv == portfolio_data.total_value
            sa == AlertsOfType(alerts, "stock")
            q == AboveFifteen(hs, tv)
        IN  /\ Len(sa) = Len(q)
            /\ \A i \in DOMAIN sa :
                   /\ sa[i].symbol = q[i].tradingsymbol
                   /\ Nearest(sa[i].value.n,
                              Rat(q[i].value * 100 * sa[i].value.d, tv))
            /\ (\A i \in DOMAIN hs : hs[i].value * 100 <= 15 * tv)
                   => sa = << >>

\* a holding at exactly 15% of a portfolio without stock alerts
C13_Witness ==
    /\ Scored
    /\ portfolio_data.total_value > 0
    /\ \E i \in DOMAIN portfolio_data.holdings :
           portfolio_data.holdings[i].value * 100
               = 15 * portfolio_data.total_value
    /\ AlertsOfType(alerts, "stock") = << >>

\* a holding just above 15% (3 of 19) raised the only stock alert
C13_JustAbove ==
    /\ Scored
    /\ portfolio_data.total_value = 19
    /\ Len(AlertsOfType(alerts, "stock")) = 1
    /\ Len(portfolio_data.holdings) > 1


\* the sector_allocation entries above 25%, in input order
AboveTwentyFive(alloc) == SelectSeq(alloc, LAMBDA e : e.pct.n > 25 * e.pct.d)

\* C14: when total_value > 0 the sector alerts are, one for one and in
\* input order, the sector_allocation entries with a percentage > 25,
\* whatever the stock pass reported (a holding and its sector may both
\* alert), and every stock alert precedes every sector alert.
C14_SectorAlerts ==
    (Scored /\ portfolio_data.total_value > 0) =>
        LET alloc == portfolio_data.sector_allocation
            sa == AlertsOfType(alerts, "sector")
            q == AboveTwentyFive(alloc)
        IN  /\ Len(sa) = Len(q)
            /\ \A i \in DOMAIN sa :
                   /\ sa[i].symbol = q[i].sector
                   /\ Nearest(sa[i].value.n,
                              Rat(q[i].pct.n * sa[i].value.d, q[i].pct.d))
            /\ Len(alerts) = Len(AlertsOfType(alerts, "stock")) + Len(sa)
            /\ \A i, j \in DOMAIN alerts :
                   (alerts[i].type = "sector" /\ alerts[j].type = "stock")
                       => j < i

\* a holding alerts and so does its sector, after it
C14_Witness ==
    /\ Scored
    /\ portfolio_data.total_value > 0
    /\ \E i, j \in DOMAIN alerts, k \in DOMAIN portfolio_data.holdings :
           /\ i < j
           /\ alerts[i].type = "stock"
           /\ alerts[j].type = "sector"
           /\ portfolio_data.holdings[k].tradingsymbol = alerts[i].symbol
           /\ portfolio_data.holdings[k].sector = alerts[j].symbol


\* C15: check_concentration_alerts returns the empty sequence whenever
\* total_value = 0, whatever holdings and sector_allocation hold, and no
\* call divides by zero.
C15_ZeroTotal ==
    Scored =>
        /\ raised = NoneStr
        /\ 0 \notin AlertDivisors(portfolio_data)
        /\ Get(portfolio_data, "total_value", 1) = 0 => alerts = << >>

\* the alerts of a snapshot with total_value 0, a holding of positive value
\* and a sector above 25% are empty
C15_Witness ==
    /\ Scored
    /\ "total_value" \in DOMAIN portfolio_data
    /\ portfolio_data.total_value = 0
    /\ "holdings" \in DOMAIN portfolio_data
    /\ \E i \in DOMAIN portfolio_data.holdings :
           portfolio_data.holdings[i].value > 0
    /\ "sector_allocation" \in DOMAIN portfolio_data
    /\ AboveTwentyFive(portfolio_data.sector_allocation) # << >>
    /\ alerts = << >>
    /\ raised = NoneStr


\* the snapshot with every absent numeric field set to 0 and every absent
\* collection set to the empty one
Filled(portfolio) ==
    [ k \in SnapshotKeys |->
        IF k \in DOMAIN portfolio THEN portfolio[k]
        ELSE IF k \in { "total_value", "holdings_count" } THEN 0
        ELSE << >> ]

\* C16 as stated: on a snapshot with absent fields the scorers do not raise
\* and return what they return for the snapshot in which each absent
\* numeric field is 0 and each absent collection is empty.
C16_AsStated ==
    Scored =>
        /\ raised = NoneStr
        /\ risk_data = calculate_risk_score(Filled(portfolio_data), float_tie)
        /\ alerts =
               check_concentration_alerts(Filled(portfolio_data), float_tie)


\* C17: for every snapshot risk_score is an integer of the 0-100 scale, and
\* it never exceeds 91.
C17_ScoreRange ==
    Scored =>
        /\ risk_data.risk_score \in ScoreRange
        /\ risk_data.risk_score <= 91
        /\ risk_data.risk_score = risk_locals.risk_score

\* a snapshot with every sub-score at its maximum: 30 + 28 + 18 + 14
C17_Witness ==
    /\ Scored
    /\ risk_locals.sector_risk = 30
    /\ risk_locals.concentration_risk = 28
    /\ risk_locals.diversification_risk = 18
    /\ risk_locals.drawdown_risk = 14
    /\ risk_data.risk_score = 90
    /\ "holdings_count" \in DOMAIN portfolio_data


\* C18 as stated: the impact map of the market context is a function of the
\* signals, and an entry set for a sector by the rate-driven table is not
\* overridden by the oil-driven entries added when oil_prices_trend is UP.
C18_AsStated ==
    context # None =>
        LET s == context.signals
            m == context.impact_map
            rate == MACRO_SECTOR_MAP.INTEREST_RATES_UP
        IN  /\ m = get_market_context(s).impact_map
            /\ (s.interest_rates_trend = "UP" \/ s.bond_yields_trend = "UP")
                   => \A k \in DOMAIN rate : k \in DOMAIN m /\ m[k] = rate[k]


\* the characters of the symbol s in front of its first "-"; all of s when
\* it has none
BeforeDash(s) ==
    LET dashes == { i \in DOMAIN s : s[i] = "-" }
    IN  IF dashes = { } THEN s
        ELSE SubSeq(s, 1, (CHOOSE i \in dashes : \A j \in dashes : i <= j) - 1)

\* C19: for every symbol get_sector returns the SECTOR_MAP entry of the
\* characters in front of the first "-", and "Other" when the table has no
\* such key.
C19_GetSector ==
    sector_pc = "done" =>
        LET prefix == BeforeDash(symbol_arg)
        IN  /\ prefix \in DOMAIN SECTOR_MAP => sector_ret = SECTOR_MAP[prefix]
            /\ prefix \notin DOMAIN SECTOR_MAP => sector_ret = "Other"

\* a symbol with an exchange suffix was looked up by its prefix
C19_Witness ==
    /\ sector_pc = "done"
    /\ symbol_arg = RELIANCE_EQ
    /\ sector_ret = "Energy"


\* a finer grid of simulator draws than the calls use
GridDraws ==
    [ stress_seed : { 0, 3000, 5999, 6000, 7500, 8999, 9000, 9999 },
      u_vix : { 0, 1, 2500, 5000, 7500, 9998, 9999 },
      u_drawdown : { 0, 1, 5000, 9998, 9999 },
      oil : Trends ]

\* a MacroSignals value within its ranges and with consistent buckets; vix
\* and index_drawdown are in hundredths
BoundedConsistent(s) ==
    /\ s.vix >= 1100 /\ s.vix <= 3500
    /\ s.index_drawdown >= 0 /\ s.index_drawdown <= 1500
    /\ s.interest_rates_trend \in Trends
    /\ s.bond_yields_trend \in Trends
    /\ s.oil_prices_trend \in Trends
    /\ s.vix >= 1700 =>
           (s.index_drawdown >= 300 /\ s.bond_yields_trend = "UP")
    /\ s.vix >= 2300 => s.index_drawdown >= 800
    /\ s.vix <= 1600 =>
           (s.index_drawdown <= 300 /\ s.bond_yields_trend = "STABLE")

\* C20: every value the simulator produces has vix in [11, 35],
\* index_drawdown in [0, 15] and trends among UP/DOWN/STABLE; vix >= 17
\* implies index_drawdown >= 3 and bond_yields_trend UP, vix >= 23 implies
\* index_drawdown >= 8, and vix <= 16 implies index_drawdown <= 3 and
\* bond_yields_trend STABLE.
C20_SimulatorConsistent ==
    /\ cache_data # None => BoundedConsistent(cache_data)
    /\ context # None => BoundedConsistent(context.signals)
    /\ \A draw \in GridDraws : BoundedConsistent(Simulation(draw))

\* a calm value at the top of its bucket (vix 16.00, drawdown 3.00) and the
\* context built from it
C20_Witness ==
    /\ cache_data # None
    /\ cache_data.is_simulated
    /\ cache_data.vix = 1600
    /\ cache_data.index_drawdown = 300
    /\ context # None
    /\ context.signals = cache_data


Regimes == { "NORMAL", "ELEVATED_VOLATILITY", "STAGFLATION_RISK" }

\* C21 as stated: the context get_market_context returns has a regime that
\* is one string among NORMAL, ELEVATED_VOLATILITY and STAGFLATION_RISK, the
\* one determine_regime gives for the signals of the same context, and it
\* has the fields signals, impact_map and timestamp.
C21_AsStated ==
    context # None =>
        /\ context.regime \in Regimes
        /\ context.regime = determine_regime(context.signals)[1]
        /\ { "signals", "impact_map", "timestamp" } \subseteq DOMAIN context


\* C22 as stated: every key k of SECTOR_MAP is classified to its own entry,
\* bare and with the suffix -EQ: get_sector(k) = SECTOR_MAP[k] and
\* get_sector(k + "-EQ") = SECTOR_MAP[k], also for a key that contains "-".
C22_AsStated ==
    sector_pc = "done" =>
        \A k \in DOMAIN SECTOR_MAP :
            (symbol_arg = k \/ symbol_arg = k \o << "-", "E", "Q" >>)
                => sector_ret = SECTOR_MAP[k]

\* every key without "-" is classified to its own entry, bare and with -EQ
C22_DashFreeKeys ==
    sector_pc = "done" =>
        \A k \in DOMAIN SECTOR_MAP :
            (/\ BeforeDash(k) = k
             /\ (symbol_arg = k \/ symbol_arg = k \o << "-", "E", "Q" >>))
                => sector_ret = SECTOR_MAP[k]


Fallback == << [ text |-> "Balanced portfolio structure" ] >>

\* C23: for every snapshot a Conservative assessment has exactly the
\* fallback reason, and an assessment with the fallback reason is not
\* Aggressive (its score is at most 53); every Aggressive assessment has a
\* trigger reason.
C23_LabelAgreesWithReasons ==
    Scored =>
        LET l == risk_data.risk_label
            R == risk_data.risk_reasons
        IN  /\ l = "Conservative" => R = Fallback
            /\ R = Fallback =>
                   (l # "Aggressive" /\ risk_data.risk_score <= 53)
            /\ l = "Aggressive" =>
                   \E i \in DOMAIN R : ReasonKind(R[i]) \in 1..3

\* the fallback reason on the highest score it can go with: 15 + 18 + 12 + 8
C23_Witness ==
    /\ Scored
    /\ risk_data.risk_reasons = Fallback
    /\ risk_data.risk_score = 53
    /\ risk_data.risk_label = "Moderate"


\* the regime of a simulated value follows its bucket
FollowsBucket(s, regime) ==
    /\ regime = "NORMAL" <=> s.vix <= 1600
    /\ s.vix >= 2300 => regime = "STAGFLATION_RISK"
    /\ s.interest_rates_trend = "STABLE"
    /\ Cardinality(StressIndicators(s)) < 4

\* C24: for every simulated value determine_regime returns NORMAL iff the
\* value is of the calm bucket (vix <= 16) and STAGFLATION_RISK for every
\* value of the panic bucket (vix >= 23); the stress score stays below 4,
\* interest_rates_trend being always STABLE.
C24_RegimeFollowsBucket ==
    /\ context # None => FollowsBucket(context.signals, context.regime)
    /\ \A draw \in GridDraws :
           LET s == Simulation(draw)
               regime == determine_regime(s)[1]
           IN  /\ FollowsBucket(s, regime)
               /\ regime = "NORMAL" <=> draw.stress_seed < 6000
               /\ draw.stress_seed >= 9000 => regime = "STAGFLATION_RISK"

\* a context built from a panic value
C24_Witness ==
    /\ context # None
    /\ context.signals.is_simulated
    /\ context.signals.vix >= 2300
    /\ context.regime = "STAGFLATION_RISK"

============================================================================
